---- MODULE Spec2Model ----
(***************************************************************************)
(* Road-network routing (lab.py): build_auxiliary_structures turns a       *)
(* stream of ways and a stream of nodes into an adjacency structure plus a *)
(* coordinate index; uniform_cost_search is the one search engine behind   *)
(* find_short_path (A* on distance) and find_fast_path (uniform cost on    *)
(* time).                                                                  *)
(***************************************************************************)
EXTENDS Integers, Sequences, FiniteSets, TLC

VARIABLES
    pc,             \* "init" | "built" | "search" | "done"
    ways,           \* the way stream build_auxiliary_structures read
    nodes,          \* the node stream build_auxiliary_structures read
    my_structure,   \* the structure build_auxiliary_structures returned
    call,           \* the query in progress: entry point and arguments
    agenda,         \* uniform_cost_search: list of [path, cost]
    expanded_set,   \* uniform_cost_search: set of expanded vertices
    popped,         \* uniform_cost_search: its local path, <<>> for None, or
                    \* <<the entry popped from the agenda>>
    result          \* what the last query returned (or raised)

vars == <<pc, ways, nodes, my_structure, call, agenda, expanded_set, popped, result>>

-----------------------------------------------------------------------------
(* Bounds of the model *)

\* node ids are 0..MaxId
MaxId == 4
\* the number of nodes of a closed way
RingLen == 4
\* the most node ids a node stream leaves without a record
MaxMissing == 1
\* the longest node sequence of a way
MaxWayLen == 3

NodeIds == 0..MaxId

\* Python's None where a node id or a cost is expected
None == -1
\* an exception (KeyError, TypeError) raised while computing a cost
Raised == -2

\* A python value used as a condition: None and 0 are false
Truthy(x) == x # None /\ x # 0

-----------------------------------------------------------------------------
(* Python dictionaries keep insertion order: a dictionary is a sequence of *)
(* [k, v] entries with pairwise distinct keys.                             *)

DictKeys(d) == [i \in 1..Len(d) |-> d[i].k]

DictHas(d, key) == \E i \in 1..Len(d) : d[i].k = key

DictGet(d, key) == d[CHOOSE i \in 1..Len(d) : d[i].k = key].v

\* d[key] = val: an existing key keeps its place, a new key goes last
DictSet(d, key, val) ==
    IF DictHas(d, key)
    THEN [i \in 1..Len(d) |-> IF d[i].k = key THEN [k |-> key, v |-> val] ELSE d[i]]
    ELSE Append(d, [k |-> key, v |-> val])

-----------------------------------------------------------------------------
(* Constants of lab.py *)

ALLOWED_HIGHWAY_TYPES ==
    {"motorway", "trunk", "primary", "secondary", "tertiary", "unclassified",
     "residential", "living_street", "motorway_link", "trunk_link",
     "primary_link", "secondary_link", "tertiary_link"}

DEFAULT_SPEED_LIMIT_MPH ==
    [h \in ALLOWED_HIGHWAY_TYPES |->
        CASE h = "motorway" -> 60
          [] h = "trunk" -> 45
          [] h = "primary" -> 35
          [] h = "secondary" -> 30
          [] h = "residential" -> 25
          [] h = "tertiary" -> 25
          [] h = "unclassified" -> 25
          [] h = "living_street" -> 10
          [] h = "motorway_link" -> 30
          [] h = "trunk_link" -> 30
          [] h = "primary_link" -> 30
          [] h = "secondary_link" -> 30
          [] h = "tertiary_link" -> 25]

-----------------------------------------------------------------------------
(* build_auxiliary_structures                                              *)
(*                                                                         *)
(* A way is [highway, maxspeed_mph, oneway, nodes]: highway and oneway are *)
(* the tag values, "" when the tag is missing; maxspeed_mph is the tag     *)
(* value, None when the tag is missing.                                    *)
(* A node of the node stream is [id, loc, tags], loc = <<lat, lon>>.       *)
(* my_structure is [entry, locations]: entry[id] is the dictionary stored  *)
(* under the key id, [in |-> FALSE] standing for "id is no key"; an entry  *)
(* has its 'connected' dictionary, and 'lat', 'lon', 'tags' once the node  *)
(* pass has filled them (hasLatLon). locations is the 'locations'          *)
(* dictionary, from <<lat, lon>> to node id.                               *)

NoEntry == [in |-> FALSE, connected |-> <<>>, hasLatLon |-> FALSE,
            loc |-> <<>>, tags |-> ""]

EmptyStructure == [entry |-> [n \in NodeIds |-> NoEntry], locations |-> <<>>]

\* line 60
AcceptedWay(way) == way.highway # "" /\ way.highway \in ALLOWED_HIGHWAY_TYPES

\* a build that ignores the maxspeed_mph tag
SpeedLimitByClass(way) == DEFAULT_SPEED_LIMIT_MPH[way.highway]

\* lines 62-66
SpeedLimit(way) ==
    IF way.maxspeed_mph # None
    THEN way.maxspeed_mph
    ELSE DEFAULT_SPEED_LIMIT_MPH[way.highway]

\* line 82
TwoWay(way) == ~(way.oneway # "" /\ way.oneway = "yes")

\* lines 70-78 (and 86-94): the guard on prev_node_id
HasPrev(prev_node_id) == Truthy(prev_node_id)

\* lines 71-78: my_structure[prev_node_id]['connected'][node] = speed_limit
AddEdge(entry, prev_node_id, node, speed_limit) ==
    IF entry[prev_node_id].in
    THEN [entry EXCEPT ![prev_node_id].connected = DictSet(@, node, speed_limit)]
    ELSE [entry EXCEPT ![prev_node_id] =
            [in |-> TRUE, connected |-> <<[k |-> node, v |-> speed_limit]>>,
             hasLatLon |-> FALSE, loc |-> <<>>, tags |-> ""]]

\* lines 68-80 (and 84-96): one walk over a node sequence; st = [entry, cn]
RECURSIVE WalkNodes(_, _, _, _)
WalkNodes(st, seq, prev_node_id, speed_limit) ==
    IF seq = <<>> THEN st
    ELSE LET node == Head(seq)
             e1 == IF HasPrev(prev_node_id)
                   THEN AddEdge(st.entry, prev_node_id, node, speed_limit)
                   ELSE st.entry
         IN  WalkNodes([entry |-> e1, cn |-> st.cn \cup {node}],
                       Tail(seq), node, speed_limit)

Reversed(seq) == [i \in 1..Len(seq) |-> seq[Len(seq) + 1 - i]]

\* a build that records the nodes of every way, accepted or not
ProcessWayTrackingAll(st, way) ==
    LET speed_limit == SpeedLimit(way)
        fwd == WalkNodes(st, way.nodes, None, speed_limit)
    IN  IF ~AcceptedWay(way)
        THEN [st EXCEPT !.cn = @ \cup {way.nodes[j] : j \in 1..Len(way.nodes)}]
        ELSE IF TwoWay(way)
             THEN WalkNodes(fwd, Reversed(way.nodes), None, speed_limit)
             ELSE fwd

\* lines 58-96: the body of the loop over the ways
ProcessWay(st, way) ==
    IF ~AcceptedWay(way) THEN st
    ELSE LET speed_limit == SpeedLimit(way)
             fwd == WalkNodes(st, way.nodes, None, speed_limit)
         IN  IF TwoWay(way)
             THEN WalkNodes(fwd, Reversed(way.nodes), None, speed_limit)
             ELSE fwd

\* a node pass that leaves an indexed coordinate with the id it has
ProcessNodeFirstWins(st, node) ==
    IF node.id \notin st.cn THEN st
    ELSE [st EXCEPT
            !.entry[node.id] =
                IF @.in
                THEN [@ EXCEPT !.hasLatLon = TRUE, !.loc = node.loc,
                               !.tags = node.tags]
                ELSE [in |-> TRUE, connected |-> <<>>, hasLatLon |-> TRUE,
                      loc |-> node.loc, tags |-> node.tags],
            !.locations = IF DictHas(@, node.loc) THEN @
                          ELSE DictSet(@, node.loc, node.id)]

\* a node pass that writes a whole new record for the node
ProcessNodeFresh(st, node) ==
    IF node.id \notin st.cn THEN st
    ELSE [st EXCEPT
            !.entry[node.id] =
                [in |-> TRUE, connected |-> <<>>, hasLatLon |-> TRUE,
                 loc |-> node.loc, tags |-> node.tags],
            !.locations = DictSet(@, node.loc, node.id)]

\* lines 98-114: the body of the loop over the nodes; st = [entry, cn, locations]
ProcessNode(st, node) ==
    IF node.id \notin st.cn THEN st
    ELSE [st EXCEPT
            !.entry[node.id] =
                IF @.in
                THEN [@ EXCEPT !.hasLatLon = TRUE, !.loc = node.loc,
                               !.tags = node.tags]
                ELSE [in |-> TRUE, connected |-> <<>>, hasLatLon |-> TRUE,
                      loc |-> node.loc, tags |-> node.tags],
            !.locations = DictSet(@, node.loc, node.id)]

RECURSIVE WayPass(_, _)
WayPass(st, ws) ==
    IF ws = <<>> THEN st ELSE WayPass(ProcessWay(st, Head(ws)), Tail(ws))

RECURSIVE NodePass(_, _)
NodePass(st, ns) ==
    IF ns = <<>> THEN st ELSE NodePass(ProcessNode(st, Head(ns)), Tail(ns))

\* the set connected_nodes after the way pass
ConnectedNodes(ws) ==
    WayPass([entry |-> EmptyStructure.entry, cn |-> {}], ws).cn

build_auxiliary_structures(ns, ws) ==
    LET w == WayPass([entry |-> EmptyStructure.entry, cn |-> {}], ws)
        n == NodePass([entry |-> w.entry, cn |-> w.cn, locations |-> <<>>], ns)
    IN  [entry |-> n.entry, locations |-> n.locations]

-----------------------------------------------------------------------------
(* The geodesic primitive (util.great_circle_distance): a metric on        *)
(* coordinates, symmetric, zero only on equal coordinates, obeying the     *)
(* triangle inequality. Coordinates are grid points and the distance is    *)
(* ten times the Euclidean distance, rounded up.                           *)

Abs(x) == IF x < 0 THEN -x ELSE x

CeilSqrt(n) == CHOOSE r \in 0..n : r * r >= n /\ (r = 0 \/ (r - 1) * (r - 1) < n)

great_circle_distance(loc1, loc2) ==
    LET dlat == Abs(loc1[1] - loc2[1])
        dlon == Abs(loc1[2] - loc2[2])
    IN  CeilSqrt(100 * (dlat * dlat + dlon * dlon))

\* Times are distances divided by speed limits: they are kept as integers,
\* multiplied by a number every speed limit of the inputs divides.
TimeScale == 60 * 45 * 35

-----------------------------------------------------------------------------
(* get_lat_lon: <<lat, lon>>, or NoneLoc for None, or RaisedLoc when       *)
(* aux_structures[node_id]['lat'] raises KeyError.                         *)

NoneLoc == <<>>
RaisedLoc == <<Raised>>

get_lat_lon(node_id, aux) ==
    IF aux.entry[node_id].in
    THEN IF aux.entry[node_id].hasLatLon THEN aux.entry[node_id].loc ELSE RaisedLoc
    ELSE NoneLoc

\* the cost closure of find_short_path (lines 250-255, and 193-198)
DistanceCost(node_id_1, node_id_2, aux) ==
    LET loc1 == get_lat_lon(node_id_1, aux)
        loc2 == get_lat_lon(node_id_2, aux)
    IN  IF loc1 = RaisedLoc \/ loc2 = RaisedLoc THEN Raised
        ELSE IF loc1 # NoneLoc /\ loc2 # NoneLoc
             THEN great_circle_distance(loc1, loc2)
             ELSE None

\* the cost closure of find_fast_path (lines 286-292)
TimeCost(node_id_1, node_id_2, aux) ==
    LET loc1 == get_lat_lon(node_id_1, aux)
        loc2 == get_lat_lon(node_id_2, aux)
    IN  IF loc1 = RaisedLoc \/ loc2 = RaisedLoc THEN Raised
        ELSE IF ~DictHas(aux.entry[node_id_1].connected, node_id_2) THEN Raised
        ELSE LET speed_limit == DictGet(aux.entry[node_id_1].connected, node_id_2)
             IN  IF loc1 # NoneLoc /\ loc2 # NoneLoc
                 THEN IF speed_limit = 0 THEN Raised
                      ELSE (great_circle_distance(loc1, loc2) * TimeScale) \div speed_limit
                 ELSE None

Cost(kind, node_id_1, node_id_2, aux) ==
    IF kind = "distance" THEN DistanceCost(node_id_1, node_id_2, aux)
    ELSE TimeCost(node_id_1, node_id_2, aux)

\* line 141: h, or Raised when a coordinate is missing
Heuristic(node_id, goal, aux) ==
    LET loc1 == get_lat_lon(node_id, aux)
        loc2 == get_lat_lon(goal, aux)
    IN  IF loc1 = RaisedLoc \/ loc2 = RaisedLoc \/ loc1 = NoneLoc \/ loc2 = NoneLoc
        THEN Raised
        ELSE great_circle_distance(loc1, loc2)

-----------------------------------------------------------------------------
(* uniform_cost_search. A call c is [fn, start, goal, cost, heuristic]; an *)
(* agenda entry is [path, cost]; a returned value is [kind, path] with     *)
(* kind "path" (a list), "none" (None) or "raise" (an exception).          *)

Last(seq) == seq[Len(seq)]

RemoveAt(seq, i) == [j \in 1..(Len(seq) - 1) |-> IF j < i THEN seq[j] ELSE seq[j + 1]]

ReturnNone == [kind |-> "none", path |-> <<>>]
ReturnRaise == [kind |-> "raise", path |-> <<>>]
ReturnPath(p) == [kind |-> "path", path |-> p]

\* lines 139-142 and 147: the number an agenda entry is compared by
Priority(path_and_cost, c, aux) ==
    IF c.heuristic
    THEN LET g == path_and_cost.cost
             h == Heuristic(Last(path_and_cost.path), c.goal, aux)
         IN  IF h = Raised THEN Raised ELSE g + h
    ELSE path_and_cost.cost

\* a scan that lets an entry of equal priority replace the minimum so far
LowerOrEqual(f, min_cost) == min_cost = None \/ f <= min_cost

\* lines 143 and 147: does an entry of priority f replace the minimum so far
Lower(f, min_cost) == min_cost = None \/ f < min_cost

\* lines 132-150: the scan of the agenda; min_index (from 1), or Raised
RECURSIVE MinIndex(_, _, _, _, _, _)
MinIndex(ag, index, min_cost, min_index, c, aux) ==
    IF index > Len(ag) THEN min_index
    ELSE LET f == Priority(ag[index], c, aux)
         IN  IF f = Raised THEN Raised
             ELSE IF Lower(f, min_cost)
                  THEN MinIndex(ag, index + 1, f, index, c, aux)
                  ELSE MinIndex(ag, index + 1, min_cost, min_index, c, aux)

\* a search that forgets the direction of the edges: the keys of 'connected',
\* then the nodes that have node_id among theirs
NeighborsEitherWay(node_id, aux) ==
    DictKeys(aux.entry[node_id].connected)
        \o SelectSeq([i \in 1..(MaxId + 1) |-> i - 1],
                     LAMBDA n : /\ ~DictHas(aux.entry[node_id].connected, n)
                                /\ aux.entry[n].in
                                /\ DictHas(aux.entry[n].connected, node_id))

\* the neighbors closure (lines 246-249): the keys of 'connected', in order
Neighbors(node_id, aux) == DictKeys(aux.entry[node_id].connected)

\* line 168: is the cost c worth an agenda entry
CostUsable(cst) == Truthy(cst)

\* lines 164-170: the loop over the children; [raised, agenda]
RECURSIVE PushChildren(_, _, _, _, _, _)
PushChildren(ns, path, ag, ex, c, aux) ==
    IF ns = <<>> THEN [raised |-> FALSE, agenda |-> ag]
    ELSE LET n == Head(ns)
         IN  IF n \in ex THEN PushChildren(Tail(ns), path, ag, ex, c, aux)
             ELSE LET cst == Cost(c.cost, Last(path.path), n, aux)
                  IN  IF cst = Raised THEN [raised |-> TRUE, agenda |-> ag]
                      ELSE IF CostUsable(cst)
                           THEN PushChildren(Tail(ns), path,
                                    Append(ag, [path |-> Append(path.path, n),
                                                cost |-> path.cost + cst]),
                                    ex, c, aux)
                           ELSE PushChildren(Tail(ns), path, ag, ex, c, aux)

\* the state of a search that has returned
Returned(ag, ex, r) ==
    [agenda |-> ag, expanded_set |-> ex, done |-> TRUE, result |-> r,
     popped |-> <<>>, pushed |-> FALSE]

\* lines 162-170: the terminal vertex joins the expanded set and its children
\* are pushed; ch is what the loop over the children left
Expanded(ch, path, ex1) ==
    IF ch.raised
    THEN [Returned(ch.agenda, ex1, ReturnRaise) EXCEPT !.popped = <<path>>]
    ELSE [agenda |-> ch.agenda, expanded_set |-> ex1, done |-> FALSE,
          result |-> ReturnNone, popped |-> <<path>>, pushed |-> TRUE]

\* a loop that expands the last node of every path it pops, expanded or not
VisitAgain(path, rest, terminal_vertex, c, ex, aux) ==
    IF terminal_vertex = c.goal
    THEN [Returned(rest, ex, ReturnPath(path.path)) EXCEPT !.popped = <<path>>]
    ELSE IF ~aux.entry[terminal_vertex].in
    THEN [Returned(rest, ex \cup {terminal_vertex}, ReturnRaise)
              EXCEPT !.popped = <<path>>]
    ELSE Expanded(PushChildren(Neighbors(terminal_vertex, aux), path, rest,
                               ex \cup {terminal_vertex}, c, aux),
                  path, ex \cup {terminal_vertex})

\* lines 155-170: what the loop does with the path it popped; rest is the
\* agenda without it
Visit(path, rest, terminal_vertex, c, ex, aux) ==
    IF terminal_vertex \in ex
    THEN [agenda |-> rest, expanded_set |-> ex, done |-> FALSE,
          result |-> ReturnNone, popped |-> <<path>>, pushed |-> FALSE]
    ELSE IF terminal_vertex = c.goal
    THEN [Returned(rest, ex, ReturnPath(path.path)) EXCEPT !.popped = <<path>>]
    ELSE IF ~aux.entry[terminal_vertex].in
    THEN [Returned(rest, ex \cup {terminal_vertex}, ReturnRaise)
              EXCEPT !.popped = <<path>>]
    ELSE Expanded(PushChildren(Neighbors(terminal_vertex, aux), path, rest,
                               ex \cup {terminal_vertex}, c, aux),
                  path, ex \cup {terminal_vertex})

\* lines 152-153: the pop of the entry the scan chose
Pop(min_index, c, ag, ex, aux) ==
    IF min_index = Raised THEN Returned(ag, ex, ReturnRaise)
    ELSE Visit(ag[min_index], RemoveAt(ag, min_index), Last(ag[min_index].path),
               c, ex, aux)

\* lines 131-172: the test of the while loop and one pass through its body
SearchIter(c, ag, ex, aux) ==
    IF ag = <<>> THEN Returned(ag, ex, ReturnNone)
    ELSE Pop(MinIndex(ag, 1, None, 1, c, aux), c, ag, ex, aux)

\* the whole call: the loop run until it returns
RECURSIVE RunSearch(_, _, _, _)

\* s is the search after one more pass
Loop(s, c, aux) ==
    IF s.done THEN s.result ELSE RunSearch(c, s.agenda, s.expanded_set, aux)

RunSearch(c, ag, ex, aux) == Loop(SearchIter(c, ag, ex, aux), c, aux)

InitialAgenda(start) == <<[path |-> <<start>>, cost |-> 0]>>

uniform_cost_search(start, goal, cost, aux, heuristic) ==
    RunSearch([start |-> start, goal |-> goal, cost |-> cost, heuristic |-> heuristic],
              InitialAgenda(start), {}, aux)

-----------------------------------------------------------------------------
(* The queries *)

\* lines 201-212
RECURSIVE NearestScanLast(_, _, _, _, _)
RECURSIVE NearestScan(_, _, _, _, _)

\* a scan that keeps the last of the coordinates at the least distance
NearestScanLast(locs, i, min_dist, min_node_id, loc) ==
    IF i > Len(locs) THEN min_node_id
    ELSE LET dist == great_circle_distance(loc, locs[i].k)
         IN  IF min_dist = None \/ min_dist >= dist
             THEN NearestScanLast(locs, i + 1, dist, locs[i].v, loc)
             ELSE NearestScanLast(locs, i + 1, min_dist, min_node_id, loc)

NearestScan(locs, i, min_dist, min_node_id, loc) ==
    IF i > Len(locs) THEN min_node_id
    ELSE LET dist == great_circle_distance(loc, locs[i].k)
         IN  IF min_dist = None \/ min_dist > dist
             THEN NearestScan(locs, i + 1, dist, locs[i].v, loc)
             ELSE NearestScan(locs, i + 1, min_dist, min_node_id, loc)

get_nearest_node_id(loc, aux) == NearestScan(aux.locations, 1, None, None, loc)

\* lines 214-223: a returned value [kind, path] with the coordinates as path
convert_nodes_path_to_loc_path(r, aux) ==
    IF r.kind = "path"
    THEN IF \A i \in 1..Len(r.path) : aux.entry[r.path[i]].in
                                       /\ aux.entry[r.path[i]].hasLatLon
         THEN ReturnPath([i \in 1..Len(r.path) |-> aux.entry[r.path[i]].loc])
         ELSE ReturnRaise
    ELSE r

\* lines 242 and 278: the query gives up when this holds
Unresolved(n1, n2) == ~Truthy(n1) \/ ~Truthy(n2)

-----------------------------------------------------------------------------
(* The inputs: way streams and node streams *)

\* the sequences of pairwise distinct node ids of length 2..n
InjSeqs(ids, n) ==
    UNION {{q \in [1..l -> ids] : \A i, j \in 1..l : i # j => q[i] # q[j]} : l \in 2..n}

WaysOf(highways, speeds, oneways, ids, n) ==
    [highway : highways, maxspeed_mph : speeds, oneway : oneways, nodes : InjSeqs(ids, n)]

\* the corners of a square, clockwise
Corner == <<(<<0, 0>>), (<<0, 1>>), (<<1, 1>>), (<<1, 0>>)>>

\* where the node records put the nodes: around the square, in pairs on the
\* corners (two nodes with equal coordinates), and on a line
Layouts ==
    {[id \in NodeIds |-> Corner[(id % 4) + 1]],
     [id \in NodeIds |-> Corner[((id \div 2) % 4) + 1]],
     [id \in NodeIds |-> <<0, id % 3>>]}

Coords == UNION {{lay[id] : id \in NodeIds} : lay \in Layouts}

\* the node stream with a record for every id of present, in ascending order
RECURSIVE Ascending(_, _)
Ascending(present, lay) ==
    IF present = {} THEN <<>>
    ELSE LET id == CHOOSE x \in present : \A y \in present : x <= y
         IN  <<[id |-> id, loc |-> lay[id], tags |-> "name"]>>
                 \o Ascending(present \ {id}, lay)

\* the sets of ids the node stream has no record of
Missing == {m \in SUBSET NodeIds : Cardinality(m) <= MaxMissing}

\* the node streams in ascending order of id
AscendingStreams ==
    UNION {{Ascending(NodeIds \ m, lay) : m \in Missing} : lay \in Layouts}

\* the node streams: a stream may come in any order
NodeStreams == AscendingStreams \cup {Reversed(ns) : ns \in AscendingStreams}

\* Route inputs: one way of a slow or a fast class, one-way or not
RouteWays ==
    WaysOf({"living_street", "motorway"}, {None}, {"", "yes"}, NodeIds, MaxWayLen)

\* a closed way: a ring through RingLen nodes, back to its first node
RingWays ==
    {[highway |-> "residential", maxspeed_mph |-> None, oneway |-> o,
      nodes |-> Append(q, q[1])] :
        o \in {"", "yes"},
        q \in {r \in InjSeqs(NodeIds, RingLen) : Len(r) = RingLen}}

\* a direct way from a to c, then a way of another class from a to c through b
DetourStreams ==
    {<<[highway |-> h[1], maxspeed_mph |-> None, oneway |-> o,
        nodes |-> <<q[1], q[3]>>],
       [highway |-> h[2], maxspeed_mph |-> None, oneway |-> o, nodes |-> q]>> :
        h \in {<<"living_street", "motorway">>, <<"motorway", "living_street">>},
        o \in {"", "yes"},
        q \in {r \in InjSeqs(NodeIds, 3) : Len(r) = 3}}

RouteStreams ==
    {<<>>} \cup {<<w>> : w \in RouteWays \cup RingWays} \cup DetourStreams

\* Tag inputs: one way of any class, allowed or not, with any tags
TagWays ==
    WaysOf(ALLOWED_HIGHWAY_TYPES \cup {"", "footway"}, {None, 15},
           {"", "yes", "no"}, NodeIds, MaxWayLen)

\* two ways over the same pair of nodes, in either direction
OverlapWays(a, b) ==
    [highway : {"residential", "footway"}, maxspeed_mph : {None, 15},
     oneway : {"", "yes"}, nodes : {<<a, b>>, <<b, a>>}]

OverlapStreams ==
    UNION {[1..2 -> OverlapWays(p[1], p[2])] :
           p \in {q \in NodeIds \X NodeIds : q[1] < q[2]}}

TagStreams == {<<>>} \cup {<<w>> : w \in TagWays} \cup OverlapStreams

-----------------------------------------------------------------------------
(* The state machine *)

\* result is [kind, path, nodes]: the returned value, and the node path the
\* search found (the empty list when it found none)
NoResult == [kind |-> "none", path |-> <<>>, nodes |-> <<>>]

NoCall == [fn |-> "", start |-> None, goal |-> None, cost |-> "", heuristic |-> FALSE,
           loc1 |-> <<>>, loc2 |-> <<>>]

Init ==
    /\ pc = "init"
    /\ ways = <<>>
    /\ nodes = <<>>
    /\ my_structure = EmptyStructure
    /\ call = NoCall
    /\ agenda = <<>>
    /\ expanded_set = {}
    /\ popped = <<>>
    /\ result = NoResult

\* build_auxiliary_structures(nodes_filename, ways_filename)
Build(WS, NS) ==
    /\ pc = "init"
    /\ \E ws \in WS, ns \in NS :
        /\ ways' = ws
        /\ nodes' = ns
        /\ my_structure' = build_auxiliary_structures(ns, ws)
    /\ pc' = "built"
    /\ UNCHANGED <<call, agenda, expanded_set, popped, result>>

\* lines 257 and 294: the answer of a query whose search gave nodes_path
Answer(nodes_path, aux) ==
    LET r == convert_nodes_path_to_loc_path(nodes_path, aux)
    IN  [kind |-> r.kind, path |-> r.path, nodes |-> nodes_path.path]

\* lines 245-257 and 281-294: the closures, the search, the conversion
Search(n1, n2, cost, heuristic, aux) ==
    Answer(uniform_cost_search(n1, n2, cost, aux, heuristic), aux)

\* lines 242-257 and 278-294: the query once its two nodes are looked up
Resolved(n1, n2, fn, cost, heuristic, loc1, loc2) ==
    /\ call' = [fn |-> fn, start |-> n1, goal |-> n2, cost |-> cost,
                heuristic |-> heuristic, loc1 |-> loc1, loc2 |-> loc2]
    /\ result' =
         IF Unresolved(n1, n2) THEN NoResult
         ELSE IF n1 = n2
         THEN [kind |-> "path", path |-> <<my_structure.entry[n1].loc>>,
               nodes |-> <<n1>>]
         ELSE Search(n1, n2, cost, heuristic, my_structure)

\* a path query that keeps the node it found for loc1 in the coordinate index
PathQueryIndexing(fn, cost, heuristic, loc1, loc2) ==
    /\ pc = "built"
    /\ Resolved(get_nearest_node_id(loc1, my_structure),
                get_nearest_node_id(loc2, my_structure),
                fn, cost, heuristic, loc1, loc2)
    /\ my_structure' =
          [my_structure EXCEPT
              !.locations = DictSet(@, loc1, get_nearest_node_id(loc1, my_structure))]
    /\ pc' = "done"
    /\ UNCHANGED <<ways, nodes, agenda, expanded_set, popped>>

\* lines 240-257 and 276-294: a path query, the search run to its end
PathQuery(fn, cost, heuristic, loc1, loc2) ==
    /\ pc = "built"
    /\ Resolved(get_nearest_node_id(loc1, my_structure),
                get_nearest_node_id(loc2, my_structure),
                fn, cost, heuristic, loc1, loc2)
    /\ pc' = "done"
    /\ UNCHANGED <<ways, nodes, my_structure, agenda, expanded_set, popped>>

find_short_path == \E loc1, loc2 \in Coords : PathQuery("find_short_path", "distance", TRUE, loc1, loc2)

find_fast_path == \E loc1, loc2 \in Coords : PathQuery("find_fast_path", "time", FALSE, loc1, loc2)

\* the nodes the node pass has completed
Located(aux) == {n \in NodeIds : aux.entry[n].in /\ aux.entry[n].hasLatLon}

\* the value r of a search, as the result of the call
Direct(r) == [kind |-> r.kind, path |-> r.path, nodes |-> r.path]

\* uniform_cost_search called on two nodes of the graph, with the distance cost
engine_call ==
    /\ pc = "built"
    /\ \E start, goal \in Located(my_structure), heuristic \in BOOLEAN :
        /\ call' = [fn |-> "uniform_cost_search", start |-> start, goal |-> goal,
                    cost |-> "distance", heuristic |-> heuristic,
                    loc1 |-> <<>>, loc2 |-> <<>>]
        /\ result' = Direct(uniform_cost_search(start, goal, "distance",
                                                my_structure, heuristic))
    /\ pc' = "done"
    /\ UNCHANGED <<ways, nodes, my_structure, agenda, expanded_set, popped>>

\* the node ids the structure has an entry for
Keys(aux) == {n \in NodeIds : aux.entry[n].in}

\* lines 174-199: the shortest path between two nodes of the graph; equal
\* nodes are answered before the search (lines 187-188)
find_short_path_nodes ==
    /\ pc = "built"
    /\ \E node1, node2 \in Keys(my_structure) :
        /\ call' = [fn |-> "find_short_path_nodes", start |-> node1, goal |-> node2,
                    cost |-> "distance", heuristic |-> TRUE,
                    loc1 |-> <<>>, loc2 |-> <<>>]
        /\ result' = IF node1 = node2 THEN Direct(ReturnPath(<<node1>>))
                      ELSE Direct(uniform_cost_search(node1, node2, "distance",
                                                      my_structure, TRUE))
    /\ pc' = "done"
    /\ UNCHANGED <<ways, nodes, my_structure, agenda, expanded_set, popped>>

\* lines 201-212 called on their own: the id found is kept as the start
nearest_node ==
    /\ pc = "built"
    /\ \E loc \in Coords :
        call' = [fn |-> "get_nearest_node_id",
                 start |-> get_nearest_node_id(loc, my_structure), goal |-> None,
                 cost |-> "", heuristic |-> FALSE, loc1 |-> loc, loc2 |-> <<>>]
    /\ result' = NoResult
    /\ pc' = "done"
    /\ UNCHANGED <<ways, nodes, my_structure, agenda, expanded_set, popped>>

\* the caller takes the returned value and goes on to its next query
Return ==
    /\ pc = "done"
    /\ pc' = "built"
    /\ call' = NoCall
    /\ result' = NoResult
    /\ UNCHANGED <<ways, nodes, my_structure, agenda, expanded_set, popped>>

BuildRoutes == Build(RouteStreams, AscendingStreams)

Next ==
    \/ BuildRoutes
    \/ find_short_path
    \/ find_fast_path
    \/ engine_call
    \/ find_short_path_nodes
    \/ nearest_node
    \/ Return

\* the queries, over the route inputs
Spec == Init /\ [][Next]_vars

-----------------------------------------------------------------------------
(* uniform_cost_search one pass of its loop at a time *)

\* a way from a to c, then a way a, b, c, d: two paths lead to c, and on to d
ShortcutStreams ==
    {<<[highway |-> "motorway", maxspeed_mph |-> None, oneway |-> o,
        nodes |-> <<q[1], q[3]>>],
       [highway |-> "motorway", maxspeed_mph |-> None, oneway |-> o, nodes |-> q]>> :
        o \in {"", "yes"},
        q \in {r \in InjSeqs(NodeIds, RingLen) : Len(r) = RingLen}}

\* Search inputs: a ring, or a direct way and a detour, or a shortcut
SearchStreams == {<<w>> : w \in RingWays} \cup DetourStreams \cup ShortcutStreams

BuildSearch == Build(SearchStreams, AscendingStreams)

\* the cost and heuristic the callers of uniform_cost_search pass (lines 199,
\* 256 and 293), and the distance cost without the heuristic
Modes == {<<"distance", TRUE>>, <<"distance", FALSE>>, <<"time", FALSE>>}

\* lines 125-129: the call begins
Start ==
    /\ pc = "built"
    /\ \E start, goal \in Keys(my_structure), mode \in Modes :
        /\ call' = [fn |-> "uniform_cost_search", start |-> start, goal |-> goal,
                    cost |-> mode[1], heuristic |-> mode[2],
                    loc1 |-> <<>>, loc2 |-> <<>>]
        /\ agenda' = InitialAgenda(start)
    /\ expanded_set' = {}
    /\ popped' = <<>>
    /\ pc' = "search"
    /\ UNCHANGED <<ways, nodes, my_structure, result>>

\* the search after the pass s
After(s) ==
    /\ agenda' = s.agenda
    /\ expanded_set' = s.expanded_set
    /\ popped' = s.popped
    /\ result' = IF s.done THEN Direct(s.result) ELSE result
    /\ pc' = IF s.done THEN "done" ELSE "search"

\* lines 130-172: the test of the while loop and one pass through its body
Iterate ==
    /\ pc = "search"
    /\ After(SearchIter(call, agenda, expanded_set, my_structure))
    /\ UNCHANGED <<ways, nodes, my_structure, call>>

\* the caller takes the returned value; the agenda and the expanded set of the
\* call are gone with it
ReturnSearch ==
    /\ pc = "done"
    /\ pc' = "built"
    /\ call' = NoCall
    /\ result' = NoResult
    /\ agenda' = <<>>
    /\ expanded_set' = {}
    /\ popped' = <<>>
    /\ UNCHANGED <<ways, nodes, my_structure>>

NextSearch == BuildSearch \/ Start \/ Iterate \/ ReturnSearch

\* the search in steps, over the search inputs
SpecSearch == Init /\ [][NextSearch]_vars

BuildTags == Build(TagStreams, NodeStreams)

NextBuild == BuildTags

\* the build alone, over the tag inputs
SpecBuild == Init /\ [][NextBuild]_vars

-----------------------------------------------------------------------------
(* The graph a structure holds, read off the structure itself *)

\* the directed edges of the adjacency
EdgeSet(aux) ==
    {e \in NodeIds \X NodeIds :
        aux.entry[e[1]].in /\ DictHas(aux.entry[e[1]].connected, e[2])}

EdgeWeight(aux, a, b) == DictGet(aux.entry[a].connected, b)

\* the edges between two nodes that both have coordinates
LocatedEdges(aux) ==
    {e \in EdgeSet(aux) : e[1] \in Located(aux) /\ e[2] \in Located(aux)}

\* the length of a located edge: its distance, or its time
EdgeLength(aux, kind, a, b) ==
    LET d == great_circle_distance(aux.entry[a].loc, aux.entry[b].loc)
    IN  IF kind = "distance" THEN d ELSE (d * TimeScale) \div EdgeWeight(aux, a, b)

\* the least length of a simple path from a to g along the edges E that avoids
\* visited, by enumeration; None when there is no such path
RECURSIVE BestLength(_, _, _, _, _, _)
BestLength(aux, kind, E, a, g, visited) ==
    IF a = g THEN 0
    ELSE LET next == {b \in NodeIds : <<a, b>> \in E /\ b \notin visited}
             via == [b \in next |-> BestLength(aux, kind, E, b, g, visited \cup {b})]
             ok == {b \in next : via[b] # None}
             total == [b \in ok |-> EdgeLength(aux, kind, a, b) + via[b]]
         IN  IF ok = {} THEN None
             ELSE total[CHOOSE b \in ok : \A x \in ok : total[b] <= total[x]]

\* the nodes a path along the edges E leads to from a
RECURSIVE ReachableFrom(_, _)
ReachableFrom(E, seen) ==
    LET more == seen \cup {e[2] : e \in {x \in E : x[1] \in seen}}
    IN  IF more = seen THEN seen ELSE ReachableFrom(E, more)

\* the node sequence p is a path along the edges E
IsPath(E, p) == \A i \in 1..(Len(p) - 1) : <<p[i], p[i + 1]>> \in E

RECURSIVE PathLength(_, _, _)
PathLength(aux, kind, p) ==
    IF Len(p) < 2 THEN 0
    ELSE EdgeLength(aux, kind, p[1], p[2]) + PathLength(aux, kind, Tail(p))

Done(fn) == pc = "done" /\ call.fn = fn

-----------------------------------------------------------------------------
(* Claims about the search *)

\* the least length of a path from the start to the goal of the call, along
\* the edges whose two ends have coordinates; None when there is none
BestOfCall ==
    BestLength(my_structure, call.cost, LocatedEdges(my_structure),
               call.start, call.goal, {call.start})

\* C1: the shortest-distance search (uniform_cost_search with the heuristic and
\* the distance cost) returns, whenever a directed path from start to goal
\* exists, a path whose summed distance is the least over all simple paths;
\* edges of distance zero between distinct nodes count as edges.
C1_ShortestIsOptimal ==
    (Done("uniform_cost_search") /\ call.heuristic /\ BestOfCall # None) =>
        /\ result.kind = "path"
        /\ IsPath(LocatedEdges(my_structure), result.nodes)
        /\ PathLength(my_structure, "distance", result.nodes) = BestOfCall

\* C2: find_fast_path returns, whenever a directed path joins the two distinct
\* nodes nearest to the query coordinates, a path whose summed time (distance
\* over speed limit) is the least over all directed paths.
C2_FastestIsOptimal ==
    (Done("find_fast_path") /\ call.start # None /\ call.goal # None
        /\ call.start # call.goal /\ BestOfCall # None) =>
        /\ result.kind = "path"
        /\ IsPath(LocatedEdges(my_structure), result.nodes)
        /\ PathLength(my_structure, "time", result.nodes) = BestOfCall

\* what uniform_cost_search returns for the call when the heuristic is switched
OtherMode ==
    uniform_cost_search(call.start, call.goal, call.cost, my_structure, ~call.heuristic)

\* C3: with the distance cost, the search with the heuristic and the search
\* without it end the same way (both None, or both a path) and, when both
\* return a path, the two paths have the same summed distance.
C3_HeuristicEquivalent ==
    Done("uniform_cost_search") =>
        /\ result.kind = OtherMode.kind
        /\ result.kind = "path" =>
               PathLength(my_structure, "distance", result.nodes)
                   = PathLength(my_structure, "distance", OtherMode.path)

\* C4: when no directed path leads from the start to the goal, the search
\* empties its agenda and returns None, and the path query returns None too,
\* never an exception.
C4_UnreachableIsNone ==
    (pc = "done" /\ call.start # None /\ call.goal # None
        /\ call.goal \notin ReachableFrom(EdgeSet(my_structure), {call.start})) =>
        result.kind = "none"

\* the one-way loops a -> b -> c -> d -> a the adjacency consists of, as
\* <<a, b, c, d>>: four nodes on the four corners of a square, joined by these
\* four edges only
Loops(aux) ==
    LET E == EdgeSet(aux)
    IN  IF Cardinality(E) # 4 THEN {}
        ELSE {q \in NodeIds \X NodeIds \X NodeIds \X NodeIds :
                /\ Cardinality({q[1], q[2], q[3], q[4]}) = 4
                /\ E = {<<q[1], q[2]>>, <<q[2], q[3]>>, <<q[3], q[4]>>, <<q[4], q[1]>>}
                /\ {q[1], q[2], q[3], q[4]} \subseteq Located(aux)
                /\ {aux.entry[q[i]].loc : i \in 1..4} = {Corner[i] : i \in 1..4}}

\* C5: a returned node path starts at the start node, ends at the goal node and
\* follows directed edges of the adjacency; on the one-way loop
\* a -> b -> c -> d -> a, find_fast_path from a to c goes through b.
C5_PathFollowsEdges ==
    /\ (pc = "done" /\ result.kind = "path") =>
          /\ result.nodes[1] = call.start
          /\ Last(result.nodes) = call.goal
          /\ IsPath(EdgeSet(my_structure), result.nodes)
    /\ Done("find_fast_path") =>
          \A q \in Loops(my_structure) :
              (call.start = q[1] /\ call.goal = q[3]) =>
                  /\ result.nodes = <<q[1], q[2], q[3]>>
                  /\ result.path = <<my_structure.entry[q[1]].loc,
                                     my_structure.entry[q[2]].loc,
                                     my_structure.entry[q[3]].loc>>

\* a state C5 is about: find_fast_path has answered across the one-way loop
C5_Witness ==
    /\ Done("find_fast_path")
    /\ result.kind = "path"
    /\ \E q \in Loops(my_structure) : call.start = q[1] /\ call.goal = q[3]

\* the node ids an accepted way mentions that the node stream has no record of
Unrecorded ==
    {n \in ConnectedNodes(ways) : \A i \in 1..Len(nodes) : nodes[i].id # n}

\* C10: when an accepted way mentions a node id the node stream has no record
\* of, every later search still ends with a path or None, never an exception.
C10_MissingNodeTolerated ==
    (pc = "done" /\ Unrecorded # {}) => result.kind \in {"path", "none"}

-----------------------------------------------------------------------------
(* Claims about the queries *)

\* one of the two path queries has answered
PathQueryDone == Done("find_short_path") \/ Done("find_fast_path")

\* C11: when the two query coordinates resolve to the same node id, whatever
\* that id is, find_short_path and find_fast_path return the one-element path
\* with the coordinates of that node, not None.
C11_SameNodeShortCircuit ==
    (PathQueryDone /\ call.start \in NodeIds /\ call.start = call.goal) =>
        /\ result.kind = "path"
        /\ result.nodes = <<call.start>>
        /\ result.path = <<my_structure.entry[call.start].loc>>

\* C12: on a graph with an empty coordinate index both path queries return
\* None; on a graph with a non-empty index both coordinates resolve to a node
\* and the query is not given up at the resolution step, whatever the ids are.
C12_ResolvedUnlessEmpty ==
    PathQueryDone =>
        /\ my_structure.locations = <<>> => result = NoResult
        /\ my_structure.locations # <<>> =>
               /\ call.start \in NodeIds
               /\ call.goal \in NodeIds
               /\ ~Unresolved(call.start, call.goal)

\* C13: for a node X of the graph, find_short_path_nodes(X, X) answers [X]
\* before the search, and uniform_cost_search(X, X), with the heuristic and
\* without it, returns the same [X].
C13_StartGoalEquivalent ==
    (Done("find_short_path_nodes") /\ call.start = call.goal) =>
        /\ result.kind = "path" /\ result.nodes = <<call.start>>
        /\ \A h \in BOOLEAN :
               uniform_cost_search(call.start, call.start, "distance",
                                   my_structure, h) = ReturnPath(<<call.start>>)

\* C14: once the graph is built, no step of a query - find_short_path,
\* find_fast_path, get_nearest_node_id, the searches - changes it, whether the
\* query returns a path, returns None or raises; nor are the streams changed.
C14_QueriesKeepGraph ==
    [][pc # "init" =>
          /\ my_structure' = my_structure
          /\ ways' = ways
          /\ nodes' = nodes]_vars

\* a state C14 is about: a path query has raised on a graph with edges
C14_Witness ==
    /\ PathQueryDone
    /\ result.kind = "raise"
    /\ EdgeSet(my_structure) # {}

\* the distance from the coordinate of the lookup to the i-th indexed one
IndexDistance(i) == great_circle_distance(call.loc1, my_structure.locations[i].k)

\* C17: on a non-empty coordinate index get_nearest_node_id returns the id
\* stored for an indexed coordinate at the least distance from the query, the
\* first such coordinate in the order of the index.
C17_NearestIsFirstClosest ==
    (Done("get_nearest_node_id") /\ my_structure.locations # <<>>) =>
        \E i \in 1..Len(my_structure.locations) :
            /\ call.start = my_structure.locations[i].v
            /\ \A j \in 1..Len(my_structure.locations) :
                   /\ IndexDistance(i) <= IndexDistance(j)
                   /\ j < i => IndexDistance(i) < IndexDistance(j)

\* a state C17 is about: a lookup answered where two indexed coordinates are
\* both at the least distance from the query
C17_Witness ==
    /\ Done("get_nearest_node_id")
    /\ \E i, j \in 1..Len(my_structure.locations) :
          /\ i < j
          /\ IndexDistance(i) = IndexDistance(j)
          /\ call.start = my_structure.locations[i].v
          /\ \A k \in 1..Len(my_structure.locations) :
                 IndexDistance(i) <= IndexDistance(k)

-----------------------------------------------------------------------------
(* Claims about the passes of the search, under SpecSearch *)

\* the last node of the entry popped last
Terminal == Last(popped[1].path)

\* C15: in a search without the heuristic every pass over a non-empty agenda
\* pops an entry of the least accumulated cost, the first of the agenda among
\* those of equal cost, and the cost of the entry popped is never less than
\* the cost of the entry popped before it.
C15_MonotoneExtraction ==
    [][(pc = "search" /\ ~call.heuristic /\ agenda # <<>>) =>
          /\ popped' # <<>>
          /\ \E i \in 1..Len(agenda) :
                /\ popped'[1] = agenda[i]
                /\ \A j \in 1..Len(agenda) :
                       /\ agenda[i].cost <= agenda[j].cost
                       /\ j < i => agenda[i].cost < agenda[j].cost
          /\ popped # <<>> => popped[1].cost <= popped'[1].cost]_vars

\* a state C15 is about: a search without the heuristic has popped an entry
\* and its agenda holds two entries of the same least cost
C15_Witness ==
    /\ pc = "search" /\ ~call.heuristic /\ popped # <<>>
    /\ \E i, j \in 1..Len(agenda) :
          /\ i < j
          /\ agenda[i].cost = agenda[j].cost
          /\ \A k \in 1..Len(agenda) : agenda[i].cost <= agenda[k].cost

\* C16: in every pass of the search the expanded set only grows; a popped
\* path whose last node is already expanded is dropped with nothing pushed;
\* paths are pushed only in the pass that adds the last node of the popped
\* path to the expanded set, so from each node at most once; and no pushed
\* path ends in an expanded node.
C16_NoNodeExpandedTwice ==
    [][(pc = "search") =>
          /\ expanded_set \subseteq expanded_set'
          /\ popped' = <<>> => agenda' = agenda /\ expanded_set' = expanded_set
          /\ popped' # <<>> =>
                /\ Last(popped'[1].path) \in expanded_set =>
                       /\ Len(agenda') = Len(agenda) - 1
                       /\ expanded_set' = expanded_set
                /\ \A k \in Len(agenda)..Len(agenda') :
                       /\ Last(agenda'[k].path) \notin expanded_set'
                       /\ Last(popped'[1].path) \notin expanded_set
                       /\ Last(popped'[1].path) \in expanded_set']_vars

\* a state C16 is about: the path popped last was dropped - its last node is
\* expanded, and the agenda lacks the path to a neighbour that a pass
\* expanding it would have pushed
C16_Witness ==
    /\ pc = "search" /\ popped # <<>>
    /\ Terminal \in expanded_set
    /\ \E e \in LocatedEdges(my_structure) :
          /\ e[1] = Terminal
          /\ e[2] \notin expanded_set
          /\ EdgeLength(my_structure, call.cost, e[1], e[2]) > 0
          /\ \A k \in 1..Len(agenda) :
                 agenda[k].path # Append(popped[1].path, e[2])

-----------------------------------------------------------------------------
(* Claims about the build, stated on the streams it read *)

\* the way's highway tag is in the allow-list
InAllowList(way) == way.highway \in ALLOWED_HIGHWAY_TYPES

\* the way is tagged oneway=yes
MarkedOneWay(way) == way.oneway = "yes"

\* a and b are consecutive, in this order, in the node sequence q
Consecutive(q, a, b) == \E j \in 1..(Len(q) - 1) : q[j] = a /\ q[j + 1] = b

\* the way is accepted and is meant to give the edge a -> b: a forward edge,
\* or the reverse edge of a way that is not one-way
Covers(way, a, b) ==
    /\ InAllowList(way)
    /\ \/ Consecutive(way.nodes, a, b)
       \/ ~MarkedOneWay(way) /\ Consecutive(way.nodes, b, a)

Covering(a, b) == {i \in 1..Len(ways) : Covers(ways[i], a, b)}

\* the last way of the stream that covers a -> b
LastCovering(a, b) ==
    ways[CHOOSE i \in Covering(a, b) : \A j \in Covering(a, b) : j <= i]

\* the node ids of the accepted ways
AcceptedIds ==
    UNION {{ways[i].nodes[j] : j \in 1..Len(ways[i].nodes)} :
           i \in {k \in 1..Len(ways) : InAllowList(ways[k])}}

\* C6: an edge a -> b that a way not marked one-way gave its weight has its
\* reverse b -> a in the graph, with the same weight.
C6_TwoWaySymmetric ==
    pc = "built" =>
        \A e \in EdgeSet(my_structure) :
            (Covering(e[1], e[2]) # {} /\ ~MarkedOneWay(LastCovering(e[1], e[2]))) =>
                /\ <<e[2], e[1]>> \in EdgeSet(my_structure)
                /\ EdgeWeight(my_structure, e[2], e[1])
                       = EdgeWeight(my_structure, e[1], e[2])

\* C7: every consecutive pair (a, b) of an accepted way is an edge a -> b of the
\* graph, whatever the ids, and every edge of the graph is a forward edge of
\* an accepted way or the reverse edge of one that is not one-way.
C7_ForwardEdges ==
    pc = "built" =>
        /\ \A i \in 1..Len(ways) : InAllowList(ways[i]) =>
              \A j \in 1..(Len(ways[i].nodes) - 1) :
                  <<ways[i].nodes[j], ways[i].nodes[j + 1]>> \in EdgeSet(my_structure)
        /\ \A e \in EdgeSet(my_structure) : Covering(e[1], e[2]) # {}

\* the ways of the stream whose highway tag is in the allow-list
AllowedOnly(ws) == SelectSeq(ws, InAllowList)

\* C8: every node id the structure holds (a key, an adjacency target, a value
\* of the coordinate index) is a node of a way whose highway tag is in the
\* allow-list, and the other ways leave no trace: the structure is the one
\* built from the allowed ways alone.
C8_AllowListOnly ==
    pc = "built" =>
        /\ \A n \in NodeIds : my_structure.entry[n].in => n \in AcceptedIds
        /\ \A e \in EdgeSet(my_structure) : e[2] \in AcceptedIds
        /\ \A i \in 1..Len(my_structure.locations) :
              my_structure.locations[i].v \in AcceptedIds
        /\ my_structure = build_auxiliary_structures(nodes, AllowedOnly(ways))

\* a state C8 is about: a way with a highway tag outside the allow-list was
\* read, a node of it has a record, and the structure does not hold that node
C8_Witness ==
    /\ pc = "built"
    /\ \E i \in 1..Len(ways) :
          /\ ways[i].highway = "footway"
          /\ \E j \in 1..Len(nodes) :
                /\ Consecutive(ways[i].nodes, nodes[j].id, ways[i].nodes[2])
                /\ ~my_structure.entry[nodes[j].id].in

\* the speed limit the way is meant to give: its maxspeed_mph tag, else the
\* default of its class
ResolvedSpeed(way) ==
    IF way.maxspeed_mph # None THEN way.maxspeed_mph
    ELSE CASE way.highway = "motorway" -> 60
           [] way.highway = "trunk" -> 45
           [] way.highway = "primary" -> 35
           [] way.highway = "secondary" -> 30
           [] way.highway \in {"tertiary", "unclassified", "residential",
                               "tertiary_link"} -> 25
           [] way.highway = "living_street" -> 10
           [] way.highway \in {"motorway_link", "trunk_link", "primary_link",
                               "secondary_link"} -> 30

\* C9: the weight of an edge is the maxspeed_mph tag of the way that gave it,
\* when the way has the tag (lower or higher than the default), and else the
\* default of the way's highway class.
C9_SpeedLimitResolved ==
    pc = "built" =>
        \A e \in EdgeSet(my_structure) :
            /\ Covering(e[1], e[2]) # {}
            /\ EdgeWeight(my_structure, e[1], e[2])
                   = ResolvedSpeed(LastCovering(e[1], e[2]))

\* a state C9 is about: an edge carries the maxspeed_mph tag of its way, which
\* is not the default of the way's class
C9_Witness ==
    /\ pc = "built"
    /\ \E e \in EdgeSet(my_structure) :
          /\ Covering(e[1], e[2]) # {}
          /\ LastCovering(e[1], e[2]).maxspeed_mph # None
          /\ LastCovering(e[1], e[2]).maxspeed_mph
                 # DEFAULT_SPEED_LIMIT_MPH[LastCovering(e[1], e[2]).highway]
          /\ EdgeWeight(my_structure, e[1], e[2]) = LastCovering(e[1], e[2]).maxspeed_mph

\* the records of the node stream the node pass keeps: those of the node ids
\* of accepted ways
Kept == {j \in 1..Len(nodes) : nodes[j].id \in AcceptedIds}

\* C18: every key of the coordinate index occurs once and maps to the id of a
\* node of the graph whose coordinate is the key; the id is that of the last
\* kept record of the node stream with this coordinate; and every kept record
\* has its node in the graph and its coordinate in the index.
C18_IndexLastWriteWins ==
    pc = "built" =>
        /\ \A i \in 1..Len(my_structure.locations) :
              LET k == my_structure.locations[i].k
                  v == my_structure.locations[i].v
              IN  /\ \A j \in 1..Len(my_structure.locations) :
                         my_structure.locations[j].k = k => j = i
                  /\ my_structure.entry[v].in
                  /\ my_structure.entry[v].hasLatLon
                  /\ my_structure.entry[v].loc = k
                  /\ \E j \in Kept :
                         /\ nodes[j].loc = k /\ nodes[j].id = v
                         /\ \A l \in Kept : nodes[l].loc = k => l <= j
        /\ \A j \in Kept :
              /\ my_structure.entry[nodes[j].id].in
              /\ my_structure.entry[nodes[j].id].loc = nodes[j].loc
              /\ DictHas(my_structure.locations, nodes[j].loc)

\* a state C18 is about: two kept records share their coordinate, the index
\* holds the id of the later one, and both nodes are in the graph
C18_Witness ==
    /\ pc = "built"
    /\ \E j, l \in Kept :
          /\ j < l
          /\ nodes[j].loc = nodes[l].loc
          /\ DictGet(my_structure.locations, nodes[l].loc) = nodes[l].id
          /\ my_structure.entry[nodes[j].id].hasLatLon
          /\ my_structure.entry[nodes[l].id].hasLatLon

\* the adjacency of node n as the way pass left it
AfterWayPass(n) ==
    WayPass([entry |-> EmptyStructure.entry, cn |-> {}], ways).entry[n].connected

\* C19: every node of an accepted way that has a record in the node stream
\* is in the graph with the coordinate and the tags of its record and with
\* the adjacency the way pass gave it, the empty one when no way gives it an
\* outgoing edge.
C19_RecordsCompleted ==
    pc = "built" =>
        \A j \in Kept :
            LET rec == my_structure.entry[nodes[j].id]
            IN  /\ rec.in /\ rec.hasLatLon
                /\ rec.loc = nodes[j].loc
                /\ rec.tags = nodes[j].tags
                /\ rec.connected = AfterWayPass(nodes[j].id)
                /\ (\A b \in NodeIds : Covering(nodes[j].id, b) = {}) =>
                       rec.connected = <<>>

\* a state C19 is about: a one-way way whose first node has kept its edge
\* through the node pass and whose last node has the empty adjacency
C19_Witness ==
    /\ pc = "built"
    /\ \E j, l \in Kept :
          /\ my_structure.entry[nodes[j].id].connected # <<>>
          /\ my_structure.entry[nodes[j].id].hasLatLon
          /\ my_structure.entry[nodes[l].id].connected = <<>>
          /\ my_structure.entry[nodes[l].id].hasLatLon
          /\ <<nodes[j].id, nodes[l].id>> \in EdgeSet(my_structure)

\* C20: when two or more accepted ways give the directed pair a -> b, the
\* graph has the edge a -> b with the speed limit of the last of them in the
\* way stream, each direction on its own.
C20_LastWayWins ==
    pc = "built" =>
        \A a, b \in NodeIds :
            Cardinality(Covering(a, b)) >= 2 =>
                /\ <<a, b>> \in EdgeSet(my_structure)
                /\ EdgeWeight(my_structure, a, b) = ResolvedSpeed(LastCovering(a, b))

====
